---- MODULE Spec2Model ----
(***************************************************************************)
(* Drawing / transform engine of calc-fe-main/src/screens/home/index.tsx.  *)
(*                                                                         *)
(* Numbers are JavaScript Numbers modelled as exact extended rationals     *)
(* [n, d]: d > 0 is a finite value, 1/0 is Infinity, -1/0 is -Infinity and *)
(* 0/0 is NaN (rounding, overflow and negative zero are not modelled).     *)
(* The raster is modelled sparsely: a stack of origin-anchored rectangles  *)
(* (fills) plus single-pixel ink marks; "T" is a transparent pixel.        *)
(***************************************************************************)
EXTENDS Integers, Sequences, FiniteSets, TLC

(* ------------------------------ bounds -------------------------------- *)
MaxStack == 2      \* longest undo / redo stack explored
MaxLoads == 2      \* image loads that may be pending at once
MaxPath  == 2      \* points kept in the context's current path
MaxOps   == 4      \* input events per behaviour of Spec
MaxViewOps == 5    \* input events per behaviour of SpecView
MaxGrowOps == 3    \* input events per behaviour of SpecGrow
MaxHistOps == 4    \* input events per behaviour of SpecHist
MaxFailOps == 4    \* input events per behaviour of SpecFail
MaxCalcOps == 2    \* input events per behaviour of SpecCalc
MaxSolutions == 1  \* most solutions in one backend answer
MaxAuthOps == 4    \* input events per behaviour of SpecAuth
MaxTouches == 3    \* contacts on the canvas at once

(* -------------------------- program constants ------------------------- *)
MARGIN_CSS == 50   \* ensureCapacity: const margin = 50 * dpr
GROW_CSS   == 600  \* ensureCapacity: widthCSS + 600

(* --------------------------- JS numbers ------------------------------- *)
Abs(i) == IF i < 0 THEN -i ELSE i
Sgn(i) == IF i < 0 THEN -1 ELSE IF i > 0 THEN 1 ELSE 0

RECURSIVE GCD(_, _)
GCD(a, b) == IF b = 0 THEN a ELSE GCD(b, a % b)

Norm(n, d) ==
  IF d = 0 THEN [n |-> Sgn(n), d |-> 0]
  ELSE LET g == GCD(Abs(n), Abs(d))
           s == IF d < 0 THEN -1 ELSE 1
       IN  [n |-> (s * n) \div g, d |-> (s * d) \div g]

Num(i)      == [n |-> i, d |-> 1]
NaN         == [n |-> 0, d |-> 0]
IsFinite(a) == a.d # 0
IsNaN(a)    == a.d = 0 /\ a.n = 0
Neg(a)      == [n |-> -a.n, d |-> a.d]
\* products are reduced before they are formed, to keep the integers small
Mul(a, b)   ==
  LET g1 == GCD(Abs(a.n), b.d)
      g2 == GCD(Abs(b.n), a.d)
      h1 == IF g1 = 0 THEN 1 ELSE g1
      h2 == IF g2 = 0 THEN 1 ELSE g2
  IN  Norm((a.n \div h1) * (b.n \div h2), (a.d \div h2) * (b.d \div h1))
Div(a, b)   == IF b.n < 0 THEN Mul(a, [n |-> -b.d, d |-> -b.n])
                          ELSE Mul(a, [n |-> b.d, d |-> b.n])
Add(a, b)   ==
  IF IsNaN(a) \/ IsNaN(b) THEN NaN
  ELSE IF ~IsFinite(a) /\ ~IsFinite(b) THEN (IF a = b THEN a ELSE NaN)
  ELSE IF ~IsFinite(a) THEN a
  ELSE IF ~IsFinite(b) THEN b
  ELSE LET g == GCD(a.d, b.d)
       IN  Norm(a.n * (b.d \div g) + b.n * (a.d \div g), (a.d \div g) * b.d)
Sub(a, b)   == Add(a, Neg(b))
Lt(a, b)    ==
  IF IsNaN(a) \/ IsNaN(b) \/ a = b THEN FALSE
  ELSE IF ~IsFinite(a) THEN a.n < 0
  ELSE IF ~IsFinite(b) THEN b.n > 0
  ELSE LET g == GCD(a.d, b.d) IN a.n * (b.d \div g) < b.n * (a.d \div g)
Gt(a, b)    == Lt(b, a)
Floor(a)    == a.n \div a.d          \* Math.floor of a finite value

(* ----------------------------- raster --------------------------------- *)
\* dark ? '#000' : '#fff', written with six digits so that it compares equal
\* to the same colour used as a stroke style
BG(isDark) == IF isDark THEN "#000000" ELSE "#ffffff"

LayerPixel(layers, x, y) ==
  LET hit == {i \in 1..Len(layers) : x < layers[i].w /\ y < layers[i].h}
  IN  IF hit = {} THEN "T"
      ELSE layers[CHOOSE i \in hit : \A j \in hit : j <= i].c

\* the value of device pixel (x, y) of an image
PixelAt(img, x, y) ==
  IF \E m \in img.marks : m.x = x /\ m.y = y
  THEN (CHOOSE m \in img.marks : m.x = x /\ m.y = y).c
  ELSE LayerPixel(img.layers, x, y)

RECURSIVE Prune(_, _)
Prune(ls, acc) ==
  IF ls = <<>> THEN acc
  ELSE LET l    == Head(ls)
           rest == Tail(ls)
           hidden == \E j \in 1..Len(rest) : rest[j].w >= l.w /\ rest[j].h >= l.h
           same == IF acc = <<>> THEN l.c = "T"
                   ELSE LET u == acc[Len(acc)]
                        IN  u.c = l.c /\ u.w >= l.w /\ u.h >= l.h
       IN  IF l.w <= 0 \/ l.h <= 0 \/ hidden \/ same
           THEN Prune(rest, acc) ELSE Prune(rest, Append(acc, l))

Min2(a, b) == IF a < b THEN a ELSE b

\* one representation per picture: clip to the dimensions, drop what is hidden
Image(w, h, layers, marks) ==
  LET ls == Prune([i \in 1..Len(layers) |->
                     [w |-> Min2(layers[i].w, w), h |-> Min2(layers[i].h, h),
                      c |-> layers[i].c]], <<>>)
  IN  [w |-> w, h |-> h, layers |-> ls,
       marks |-> {m \in marks : /\ m.x >= 0 /\ m.x < w /\ m.y >= 0 /\ m.y < h
                                /\ m.c # LayerPixel(ls, m.x, m.y)}]

Blank(w, h) == Image(w, h, <<>>, {})

\* fillRect(0, 0, fw, fh) under the identity transform; clearRect is the "T" fill
FillRect(img, fw, fh, c) ==
  Image(img.w, img.h, Append(img.layers, [w |-> fw, h |-> fh, c |-> c]),
        {m \in img.marks : ~(m.x < fw /\ m.y < fh)})

\* the points at which two pictures could differ
Probes(a, b) ==
  LET xs == {0} \cup {l.w : l \in {a.layers[i] : i \in 1..Len(a.layers)}}
                \cup {l.w : l \in {b.layers[i] : i \in 1..Len(b.layers)}}
                \cup {m.x : m \in a.marks \cup b.marks}
                \cup {m.x + 1 : m \in a.marks \cup b.marks}
      ys == {0} \cup {l.h : l \in {a.layers[i] : i \in 1..Len(a.layers)}}
                \cup {l.h : l \in {b.layers[i] : i \in 1..Len(b.layers)}}
                \cup {m.y : m \in a.marks \cup b.marks}
                \cup {m.y + 1 : m \in a.marks \cup b.marks}
  IN  xs \X ys

\* every pixel inside w x h has the same value in both pictures
SamePixelsWithin(a, b, w, h) ==
  \A p \in Probes(a, b) :
     (p[1] < w /\ p[2] < h) => PixelAt(a, p[1], p[2]) = PixelAt(b, p[1], p[2])

SameImage(a, b) == a.w = b.w /\ a.h = b.h /\ SamePixelsWithin(a, b, a.w, a.h)

Ceil(a) == -((-a.n) \div a.d)

\* drawImage(src, 0, 0) under a uniform scale k onto a w x h canvas that is
\* uniformly of colour b ("T" for a freshly sized canvas); gco is the
\* destination context's globalCompositeOperation
DrawImage(w, h, b, src, k, gco) ==
  IF gco = "destination-out"
  THEN Image(w, h, <<[w |-> w, h |-> h, c |-> b]>> \o
                   [i \in 1..Len(src.layers) |->
                      [w |-> Ceil(Mul(Num(src.layers[i].w), k)),
                       h |-> Ceil(Mul(Num(src.layers[i].h), k)),
                       c |-> IF src.layers[i].c = "T" THEN b ELSE "T"]],
             {[x |-> Ceil(Mul(Num(m.x), k)), y |-> Ceil(Mul(Num(m.y), k)),
               c |-> IF m.c = "T" THEN b ELSE "T"] :
                m \in {mm \in src.marks :
                         /\ Floor(Div(Num(Ceil(Mul(Num(mm.x), k))), k)) = mm.x
                         /\ Floor(Div(Num(Ceil(Mul(Num(mm.y), k))), k)) = mm.y}})
  ELSE Image(w, h, <<[w |-> w, h |-> h, c |-> b]>> \o
                   [i \in 1..Len(src.layers) |->
                      [w |-> Ceil(Mul(Num(src.layers[i].w), k)),
                       h |-> Ceil(Mul(Num(src.layers[i].h), k)),
                       c |-> IF src.layers[i].c = "T" THEN b ELSE src.layers[i].c]],
             {[x |-> Ceil(Mul(Num(m.x), k)), y |-> Ceil(Mul(Num(m.y), k)),
               c |-> IF m.c = "T" THEN b ELSE m.c] :
                m \in {mm \in src.marks :
                         /\ Floor(Div(Num(Ceil(Mul(Num(mm.x), k))), k)) = mm.x
                         /\ Floor(Div(Num(Ceil(Mul(Num(mm.y), k))), k)) = mm.y}})

\* putImageData(snap, 0, 0): the pixels of snap replace those of img, exactly
PutImageData(img, snap) ==
  Image(img.w, img.h,
        img.layers \o <<[w |-> snap.w, h |-> snap.h, c |-> "T"]>> \o snap.layers,
        {m \in img.marks : ~(m.x < snap.w /\ m.y < snap.h)} \cup snap.marks)

\* ink (or, with destination-out, transparency) put on the pixels pts
Paint(img, pts, gco, style) ==
  LET c == IF gco = "destination-out" THEN "T" ELSE style
  IN  Image(img.w, img.h, img.layers,
            {m \in img.marks : <<m.x, m.y>> \notin pts}
              \cup {[x |-> p[1], y |-> p[2], c |-> c] : p \in pts})

(* ------------------------ 2D drawing context -------------------------- *)
Identity == [s |-> Num(1), ox |-> Num(0), oy |-> Num(0)]

\* the state a context has after its canvas's width or height is set
DefaultCtx == [T |-> Identity, gco |-> "source-over", strokeStyle |-> "#000000",
               lineWidth |-> Num(1), lineCap |-> "butt", path |-> <<>>]

\* ctx.setTransform(s, 0, 0, s, ox, oy): ignored when an argument is not finite
SetTransform(c, s, ox, oy) ==
  IF IsFinite(s) /\ IsFinite(ox) /\ IsFinite(oy)
  THEN [c EXCEPT !.T = [s |-> s, ox |-> ox, oy |-> oy]] ELSE c

\* ctx.scale(k, k)
ScaleCtx(c, k) ==
  IF IsFinite(k) THEN [c EXCEPT !.T.s = Mul(c.T.s, k)] ELSE c

\* a point of user space as the context's transform places it on the raster
ToDevice(c, p) == [x |-> Add(Mul(p.x, c.T.s), c.T.ox),
                   y |-> Add(Mul(p.y, c.T.s), c.T.oy)]
PtFinite(p) == IsFinite(p.x) /\ IsFinite(p.y)
Pixel(d)    == <<Floor(d.x), Floor(d.y)>>

\* ctx.beginPath(); ctx.moveTo(p)
MoveTo(c, p) ==
  IF PtFinite(p) THEN [c EXCEPT !.path = <<Pixel(ToDevice(c, p))>>]
  ELSE [c EXCEPT !.path = <<>>]

\* ctx.lineTo(p): on an empty path it only sets the starting point
LineTo(c, p) ==
  IF ~PtFinite(p) THEN c
  ELSE IF Len(c.path) < MaxPath
       THEN [c EXCEPT !.path = Append(c.path, Pixel(ToDevice(c, p)))]
       ELSE [c EXCEPT !.path = Append(Tail(c.path), Pixel(ToDevice(c, p)))]

\* ctx.stroke(): the pixels the current path inks; a path without a segment,
\* a zero-length segment with a butt cap, or a transform that is not
\* invertible, inks nothing
StrokePixels(c) ==
  IF c.T.s.n = 0 THEN {}
  ELSE UNION {{c.path[i], c.path[i + 1]} :
                i \in {j \in 1..(Len(c.path) - 1) :
                         c.path[j] # c.path[j + 1] \/ c.lineCap = "round"}}

(* ------------------------------ state --------------------------------- *)
VARIABLES
  dpr,          \* window.devicePixelRatio || 1
  win,          \* window.innerWidth / innerHeight
  dark,         \* colorScheme === 'dark'
  mode,         \* active tool
  color,        \* stroke colour chosen in the palette
  thickness,    \* stroke thickness chosen with the slider
  buf,          \* the canvas raster: width, height and pixels
  css,          \* canvas.style.width / height, in CSS pixels
  ctx,          \* the canvas's 2D context state
  t,            \* transformRef.current
  isDrawing,    \* isDrawingRef.current
  lastPos,      \* lastPosRef.current
  shapeStart,   \* shapeStartRef.current
  snapshot,     \* snapshotRef.current
  undoStack,    \* undoStack.current
  redoStack,    \* redoStack.current
  loads,        \* images whose onload has not run yet
  isPanning,    \* isPanningRef.current
  panDrag,      \* onMouseMovePan / onMouseUpPan are registered on window
  lastPan,      \* lastPan of the pan/zoom effect
  lastDistance, \* lastDistance of the pan/zoom effect
  lastCenter,   \* lastCenter of the pan/zoom effect
  touches,      \* positions of the contacts currently on the canvas
  ops,          \* input events delivered so far
  budget,       \* input events the behaviour may deliver
  last,         \* the event handled by the last step
  hist,         \* what the properties need to remember of earlier events
  app,          \* the page's history, loading flag and calculations in flight
  auth          \* AuthProvider's state and localStorage's token

vars == <<dpr, win, dark, mode, color, thickness, buf, css, ctx, t, isDrawing,
          lastPos, shapeStart, snapshot, undoStack, redoStack, loads, isPanning,
          panDrag, lastPan, lastDistance, lastCenter, touches, ops, budget, last, hist,
          app, auth>>

pageVars    == <<app, auth>>
hostVars    == <<dpr, win, dark, mode, color, thickness, pageVars>>
canvasVars  == <<buf, css, ctx>>
sessionVars == <<isDrawing, lastPos, shapeStart, snapshot>>
historyVars == <<undoStack, redoStack, loads>>
panVars     == <<isPanning, panDrag, lastPan>>
touchVars   == <<lastDistance, lastCenter, touches>>

Null == [null |-> TRUE]
Tools == {"pen", "eraser", "line", "rectangle", "circle"}

(* ------------------------ coordinate conversion ----------------------- *)
\* toWorld(clientX, clientY); x, y are clientX - rect.left, clientY - rect.top
toWorld(tr, x, y) ==
  [x |-> Div(Sub(Mul(x, dpr), tr.offsetX), tr.scale),
   y |-> Div(Sub(Mul(y, dpr), tr.offsetY), tr.scale)]

\* toScreen without the division by dpr
toScreen_DevicePx(tr, p) ==
  [x |-> Add(Mul(p.x, tr.scale), tr.offsetX),
   y |-> Add(Mul(p.y, tr.scale), tr.offsetY)]

toScreen(tr, p) ==
  [x |-> Div(Add(Mul(p.x, tr.scale), tr.offsetX), dpr),
   y |-> Div(Add(Mul(p.y, tr.scale), tr.offsetY), dpr)]

\* ctx.setTransform(t.scale, 0, 0, t.scale, t.offsetX, t.offsetY)
applyTransform(c, tr) == SetTransform(c, tr.scale, tr.offsetX, tr.offsetY)

(* --------------------------- canvas sizing ---------------------------- *)
\* setSize(): the raster is re-created at the window's size
setSize(tr, w_css, h_css, isDark) ==
  LET w  == Floor(Mul(Num(w_css), dpr))
      h  == Floor(Mul(Num(h_css), dpr))
      c1 == [ScaleCtx(DefaultCtx, dpr) EXCEPT !.lineCap = "round"]
      c2 == SetTransform(applyTransform(c1, tr), Num(1), Num(0), Num(0))
  IN  [buf |-> FillRect(Blank(w, h), w_css, h_css, BG(isDark)),
       css |-> [w |-> w_css, h |-> h_css],
       ctx |-> applyTransform(c2, tr)]

\* ensureCapacity with the new dimensions left in CSS pixels
ensureCapacity_CssDims(cv, tr, x, y) ==
  LET margin   == Mul(Num(MARGIN_CSS), dpr)
      currentW == cv.buf.w
      currentH == cv.buf.h
      x_css    == Mul(x, dpr)
      y_css    == Mul(y, dpr)
      nearX    == Gt(x_css, Sub(Num(currentW), margin))
      nearY    == Gt(y_css, Sub(Num(currentH), margin))
      newW_CSS == IF nearX THEN cv.css.w + GROW_CSS ELSE cv.css.w
      newH_CSS == IF nearY THEN cv.css.h + GROW_CSS ELSE cv.css.h
      newW_DPR == newW_CSS
      newH_DPR == newH_CSS
      temp     == DrawImage(newW_DPR, newH_DPR, BG(dark), cv.buf, dpr, "source-over")
      c2       == ScaleCtx(SetTransform(DefaultCtx, Num(1), Num(0), Num(0)), dpr)
  IN  IF (nearX \/ nearY) /\ (newW_DPR > currentW \/ newH_DPR > currentH)
      THEN [buf |-> DrawImage(newW_DPR, newH_DPR, "T", temp, dpr, "source-over"),
            css |-> [w |-> newW_CSS, h |-> newH_CSS],
            ctx |-> applyTransform(c2, tr)]
      ELSE cv

\* ensureCapacity enlarging both dimensions when either margin is violated
ensureCapacity_GrowBoth(cv, tr, x, y) ==
  LET margin   == Mul(Num(MARGIN_CSS), dpr)
      currentW == cv.buf.w
      currentH == cv.buf.h
      x_css    == Mul(x, dpr)
      y_css    == Mul(y, dpr)
      nearX    == Gt(x_css, Sub(Num(currentW), margin))
      nearY    == Gt(y_css, Sub(Num(currentH), margin))
      newW_CSS == IF nearX \/ nearY THEN cv.css.w + GROW_CSS ELSE cv.css.w
      newH_CSS == IF nearX \/ nearY THEN cv.css.h + GROW_CSS ELSE cv.css.h
      newW_DPR == Floor(Mul(Num(newW_CSS), dpr))
      newH_DPR == Floor(Mul(Num(newH_CSS), dpr))
      temp     == DrawImage(newW_DPR, newH_DPR, BG(dark), cv.buf, dpr, "source-over")
      c2       == ScaleCtx(SetTransform(DefaultCtx, Num(1), Num(0), Num(0)), dpr)
  IN  IF (nearX \/ nearY) /\ (newW_DPR > currentW \/ newH_DPR > currentH)
      THEN [buf |-> DrawImage(newW_DPR, newH_DPR, "T", temp, dpr, "source-over"),
            css |-> [w |-> newW_CSS, h |-> newH_CSS],
            ctx |-> applyTransform(c2, tr)]
      ELSE cv

ensureCapacity(cv, tr, x, y) ==
  LET margin   == Mul(Num(MARGIN_CSS), dpr)
      currentW == cv.buf.w
      currentH == cv.buf.h
      x_css    == Mul(x, dpr)
      y_css    == Mul(y, dpr)
      nearX    == Gt(x_css, Sub(Num(currentW), margin))
      nearY    == Gt(y_css, Sub(Num(currentH), margin))
      newW_CSS == IF nearX THEN cv.css.w + GROW_CSS ELSE cv.css.w
      newH_CSS == IF nearY THEN cv.css.h + GROW_CSS ELSE cv.css.h
      newW_DPR == Floor(Mul(Num(newW_CSS), dpr))
      newH_DPR == Floor(Mul(Num(newH_CSS), dpr))
      temp     == DrawImage(newW_DPR, newH_DPR, BG(dark), cv.buf, dpr, "source-over")
      c2       == ScaleCtx(SetTransform(DefaultCtx, Num(1), Num(0), Num(0)), dpr)
  IN  IF (nearX \/ nearY) /\ (newW_DPR > currentW \/ newH_DPR > currentH)
      THEN [buf |-> DrawImage(newW_DPR, newH_DPR, "T", temp, dpr, "source-over"),
            css |-> [w |-> newW_CSS, h |-> newH_CSS],
            ctx |-> applyTransform(c2, tr)]
      ELSE cv

(* ------------------------------ history ------------------------------- *)
\* canvas.toDataURL(): a lossless encoding of the raster and its dimensions
toDataURL(b) == b

\* img.onload of restoreFromDataURL
restoreOnLoad(cv, tr, img, isDark) ==
  LET c1 == SetTransform(cv.ctx, Num(1), Num(0), Num(0))
      b  == IF c1.gco = "destination-out" THEN "T" ELSE BG(isDark)
  IN  [buf |-> DrawImage(cv.buf.w, cv.buf.h, b, img, Num(1), c1.gco),
       css |-> cv.css,
       ctx |-> applyTransform(c1, tr)]

(* --------------------------- engine record ---------------------------- *)
\* the mutable state the handlers work on, as one value, so that the
\* handlers a single host event runs can be applied one after the other
Engine ==
  [buf |-> buf, css |-> css, ctx |-> ctx, t |-> t, isDrawing |-> isDrawing,
   lastPos |-> lastPos, shapeStart |-> shapeStart, snapshot |-> snapshot,
   undoStack |-> undoStack, redoStack |-> redoStack, loads |-> loads,
   isPanning |-> isPanning, panDrag |-> panDrag, lastPan |-> lastPan,
   lastDistance |-> lastDistance, lastCenter |-> lastCenter]

Becomes(e) ==
  /\ buf' = e.buf /\ css' = e.css /\ ctx' = e.ctx /\ t' = e.t
  /\ isDrawing' = e.isDrawing /\ lastPos' = e.lastPos
  /\ shapeStart' = e.shapeStart /\ snapshot' = e.snapshot
  /\ undoStack' = e.undoStack /\ redoStack' = e.redoStack /\ loads' = e.loads
  /\ isPanning' = e.isPanning /\ panDrag' = e.panDrag /\ lastPan' = e.lastPan
  /\ lastDistance' = e.lastDistance /\ lastCenter' = e.lastCenter

Canvas(e) == [buf |-> e.buf, css |-> e.css, ctx |-> e.ctx]
WithCanvas(e, cv) == [e EXCEPT !.buf = cv.buf, !.css = cv.css, !.ctx = cv.ctx]

\* pushUndo that keeps the redo stack
pushUndo_KeepRedo(e) == [e EXCEPT !.undoStack = Append(@, toDataURL(e.buf))]

pushUndo(e) ==
  [e EXCEPT !.undoStack = Append(@, toDataURL(e.buf)), !.redoStack = <<>>]

\* restoreFromDataURL(url): only starts the load; onload runs later
restoreFromDataURL(e, url) ==
  [e EXCEPT !.loads = Append(@, [img |-> url, dark |-> dark])]

Front(q) == SubSeq(q, 1, Len(q) - 1)
Top(q)   == q[Len(q)]

\* undo without the test for an empty undo stack
undo_Unguarded(e) ==
  restoreFromDataURL(
    [e EXCEPT !.undoStack = IF @ = <<>> THEN @ ELSE Front(@),
              !.redoStack = Append(@, toDataURL(e.buf))],
    IF e.undoStack = <<>> THEN toDataURL(e.buf) ELSE Top(e.undoStack))

undo(e) ==
  IF Len(e.undoStack) = 0 THEN e
  ELSE restoreFromDataURL(
         [e EXCEPT !.undoStack = Front(@),
                   !.redoStack = Append(@, toDataURL(e.buf))],
         Top(e.undoStack))

\* redo that leaves the redone entry on the redo stack
redo_KeepEntry(e) ==
  IF Len(e.redoStack) = 0 THEN e
  ELSE restoreFromDataURL(
         [e EXCEPT !.undoStack = Append(@, toDataURL(e.buf))],
         Top(e.redoStack))

redo(e) ==
  IF Len(e.redoStack) = 0 THEN e
  ELSE restoreFromDataURL(
         [e EXCEPT !.redoStack = Front(@),
                   !.undoStack = Append(@, toDataURL(e.buf))],
         Top(e.redoStack))

\* fillRect(0, 0, canvas.width, canvas.height) after clearRect, under the
\* context's current composite mode
FillAll(b, gco, isDark) ==
  IF gco = "destination-out" THEN Blank(b.w, b.h)
  ELSE FillRect(Blank(b.w, b.h), b.w, b.h, BG(isDark))

\* clearBoard that leaves the context with the identity transform
clearBoard_NoReapply(e) ==
  LET e1 == pushUndo(e)
      c1 == SetTransform(e1.ctx, Num(1), Num(0), Num(0))
  IN  [e1 EXCEPT !.buf = FillAll(e1.buf, c1.gco, dark), !.ctx = c1]

clearBoard(e) ==
  LET e1 == pushUndo(e)
      c1 == SetTransform(e1.ctx, Num(1), Num(0), Num(0))
  IN  [e1 EXCEPT !.buf = FillAll(e1.buf, c1.gco, dark),
                 !.ctx = applyTransform(c1, e1.t)]

imgOnload(e, i) ==
  WithCanvas([e EXCEPT !.loads = SubSeq(@, 1, i - 1) \o SubSeq(@, i + 1, Len(@))],
             restoreOnLoad(Canvas(e), e.t, e.loads[i].img, e.loads[i].dark))

(* ---------------------------- tool handlers --------------------------- *)
pressureFactor(pressure) ==
  IF pressure = Num(0) \/ pressure = Num(1) THEN Num(1) ELSE Mul(pressure, Num(2))

snapshotCanvas(e) == e.buf
restoreSnapshot(e, snap) == [e EXCEPT !.buf = PutImageData(@, snap)]

\* onPointerDown starting a stroke whatever the tool
onPointerDown_AlwaysDraw(e, ev) ==
  IF ev.pointerType # "pen" /\ (ev.pointerType # "mouse" \/ ev.button # 0) THEN e
  ELSE
    LET p_world  == toWorld(e.t, ev.x, ev.y)
        p_screen == toScreen(e.t, p_world)
        e1 == WithCanvas(e, ensureCapacity(Canvas(e), e.t, p_screen.x, p_screen.y))
        e2 == pushUndo(e1)
    IN  IF mode \in Tools
        THEN [e2 EXCEPT
                !.isDrawing = TRUE,
                !.lastPos = p_world,
                !.ctx = MoveTo(
                   [@ EXCEPT !.gco = IF mode = "eraser" THEN "destination-out"
                                                        ELSE "source-over",
                             !.strokeStyle = color,
                             !.lineWidth = Mul(Div(Num(thickness), dpr),
                                               pressureFactor(ev.pressure))],
                   p_world)]
        ELSE [e2 EXCEPT !.shapeStart = p_world, !.snapshot = snapshotCanvas(e2)]

onPointerDown(e, ev) ==
  IF ev.pointerType # "pen" /\ (ev.pointerType # "mouse" \/ ev.button # 0) THEN e
  ELSE
    LET p_world  == toWorld(e.t, ev.x, ev.y)
        p_screen == toScreen(e.t, p_world)
        e1 == WithCanvas(e, ensureCapacity(Canvas(e), e.t, p_screen.x, p_screen.y))
        e2 == pushUndo(e1)
    IN  IF mode \in {"pen", "eraser"}
        THEN [e2 EXCEPT
                !.isDrawing = TRUE,
                !.lastPos = p_world,
                !.ctx = MoveTo(
                   [@ EXCEPT !.gco = IF mode = "eraser" THEN "destination-out"
                                                        ELSE "source-over",
                             !.strokeStyle = color,
                             !.lineWidth = Mul(Div(Num(thickness), dpr),
                                               pressureFactor(ev.pressure))],
                   p_world)]
        ELSE [e2 EXCEPT !.shapeStart = p_world, !.snapshot = snapshotCanvas(e2)]

\* the pixels a shape preview inks: the end points of a line, the corners of
\* a rectangle, and two opposite points of a circle (the current point and
\* its reflection through the centre)
ShapeCtx(c, a, p) ==
  IF mode = "line" THEN LineTo(MoveTo(c, a), p)
  ELSE IF mode = "circle" /\ PtFinite(a) /\ PtFinite(p)
       THEN [c EXCEPT !.path =
               <<Pixel(ToDevice(c, [x |-> Sub(Add(a.x, a.x), p.x),
                                    y |-> Sub(Add(a.y, a.y), p.y)])),
                 Pixel(ToDevice(c, p))>>]
       ELSE c

ShapePixels(c, a, p) ==
  IF ~PtFinite(a) \/ ~PtFinite(p) \/ c.T.s.n = 0 THEN {}
  ELSE IF mode = "line" THEN StrokePixels(ShapeCtx(c, a, p))
  ELSE IF a = p THEN {}
  ELSE IF mode = "rectangle"
       THEN {Pixel(ToDevice(c, q)) :
               q \in {a, p, [x |-> p.x, y |-> a.y], [x |-> a.x, y |-> p.y]}}
  ELSE IF mode = "circle"
       THEN {ShapeCtx(c, a, p).path[1], ShapeCtx(c, a, p).path[2]}
  ELSE {}

\* onPointerMove, pen / eraser branch: extend the path to p_world and stroke
strokeTo(e1, ev, p_world) ==
  IF ~e1.isDrawing THEN e1
  ELSE LET c1 == LineTo([e1.ctx EXCEPT !.lineWidth =
                           Mul(Div(Num(thickness), dpr),
                               pressureFactor(ev.pressure))],
                        p_world)
       IN  [e1 EXCEPT !.ctx = c1,
                      !.buf = Paint(@, StrokePixels(c1), c1.gco, c1.strokeStyle),
                      !.lastPos = p_world]

\* onPointerMove, shape branch: restore the snapshot and draw the preview
previewTo(e2, p_world) ==
  LET c1 == [e2.ctx EXCEPT !.strokeStyle = color,
                           !.lineWidth = Div(Num(thickness), dpr)]
  IN  [e2 EXCEPT !.ctx = ShapeCtx(c1, e2.shapeStart, p_world),
                 !.buf = Paint(@, ShapePixels(c1, e2.shapeStart, p_world),
                               c1.gco, c1.strokeStyle)]

\* onPointerMove drawing the preview over what the last move left
afterCapacity_NoRestore(e1, ev, p_world) ==
  IF mode \in {"pen", "eraser"} THEN strokeTo(e1, ev, p_world)
  ELSE IF e1.shapeStart # Null /\ e1.snapshot # Null
       THEN previewTo(e1, p_world)
       ELSE e1

\* onPointerMove after ensureCapacity has run
afterCapacity(e1, ev, p_world) ==
  IF mode \in {"pen", "eraser"} THEN strokeTo(e1, ev, p_world)
  ELSE IF e1.shapeStart # Null /\ e1.snapshot # Null
       THEN previewTo(restoreSnapshot(e1, e1.snapshot), p_world)
       ELSE e1

\* ensureCapacity(p_screen.x, p_screen.y) on the engine's canvas
grown(e, p_screen) ==
  WithCanvas(e, ensureCapacity(Canvas(e), e.t, p_screen.x, p_screen.y))

onPointerMove(e, ev) ==
  IF ev.pointerType # "pen" /\ ev.pointerType # "mouse" THEN e
  ELSE afterCapacity(grown(e, toScreen(e.t, toWorld(e.t, ev.x, ev.y))), ev,
              toWorld(e.t, ev.x, ev.y))

\* onPointerUp that leaves the composite mode as the session set it
onPointerUp_KeepGco(e) ==
  [e EXCEPT !.isDrawing = FALSE, !.lastPos = Null, !.shapeStart = Null,
            !.snapshot = Null]

onPointerUp(e) ==
  [e EXCEPT !.isDrawing = FALSE, !.lastPos = Null, !.shapeStart = Null,
            !.snapshot = Null, !.ctx.gco = "source-over"]

(* ------------------------- pan / zoom handlers ------------------------ *)
\* onWheel zooming whether or not the modifier is held
onWheel_NoGate(e, ev) ==
  IF FALSE THEN e
  ELSE
    LET factor == IF Gt(ev.deltaY, Num(0)) THEN Norm(9, 10) ELSE Norm(11, 10)
        wx == Div(Sub(ev.offsetX, e.t.offsetX), e.t.scale)
        wy == Div(Sub(ev.offsetY, e.t.offsetY), e.t.scale)
        sc == Mul(e.t.scale, factor)
        t1 == [scale |-> sc,
               offsetX |-> Sub(ev.offsetX, Mul(wx, sc)),
               offsetY |-> Sub(ev.offsetY, Mul(wy, sc))]
    IN  [e EXCEPT !.t = t1, !.ctx = applyTransform(@, t1)]

onWheel(e, ev) ==
  IF ~ev.ctrlKey THEN e
  ELSE
    LET factor == IF Gt(ev.deltaY, Num(0)) THEN Norm(9, 10) ELSE Norm(11, 10)
        wx == Div(Sub(ev.offsetX, e.t.offsetX), e.t.scale)
        wy == Div(Sub(ev.offsetY, e.t.offsetY), e.t.scale)
        sc == Mul(e.t.scale, factor)
        t1 == [scale |-> sc,
               offsetX |-> Sub(ev.offsetX, Mul(wx, sc)),
               offsetY |-> Sub(ev.offsetY, Mul(wy, sc))]
    IN  [e EXCEPT !.t = t1, !.ctx = applyTransform(@, t1)]

getTouchCenter(ts) ==
  [x |-> Div(Add(ts[1].x, ts[2].x), Num(2)),
   y |-> Div(Add(ts[1].y, ts[2].y), Num(2))]

\* Math.sqrt of an integer that is a perfect square (the contact positions
\* explored are integers chosen so that every distance is one)
SqrtInt(i, bound) == CHOOSE k \in 0..bound : k * k = i

getTouchDistance(ts) ==
  LET dx == Sub(ts[1].x, ts[2].x).n
      dy == Sub(ts[1].y, ts[2].y).n
  IN  Num(SqrtInt(dx * dx + dy * dy, Abs(dx) + Abs(dy)))

onTouchStart(e, ts) ==
  IF Len(ts) = 2
  THEN [e EXCEPT !.lastDistance = getTouchDistance(ts),
                 !.lastCenter = getTouchCenter(ts)]
  ELSE e

\* onTouchMove anchoring on the midpoints in CSS pixels, as onWheel does
onTouchMove_CssAnchor(e, ts) ==
  IF Len(ts) = 2
  THEN LET newDistance == getTouchDistance(ts)
           newCenter   == getTouchCenter(ts)
           sc == Mul(e.t.scale, Div(newDistance, e.lastDistance))
           wx == Div(Sub(e.lastCenter.x, e.t.offsetX), e.t.scale)
           wy == Div(Sub(e.lastCenter.y, e.t.offsetY), e.t.scale)
           t1 == [scale |-> sc,
                  offsetX |-> Sub(newCenter.x, Mul(wx, sc)),
                  offsetY |-> Sub(newCenter.y, Mul(wy, sc))]
       IN  [e EXCEPT !.t = t1, !.lastDistance = newDistance,
                     !.lastCenter = newCenter, !.ctx = applyTransform(@, t1)]
  ELSE e

onTouchMove(e, ts) ==
  IF Len(ts) = 2
  THEN LET newDistance == getTouchDistance(ts)
           newCenter   == getTouchCenter(ts)
           scaleChange == Div(newDistance, e.lastDistance)
           oldScale    == e.t.scale
           sc == Mul(e.t.scale, scaleChange)
           wx == Div(Sub(Mul(e.lastCenter.x, dpr), e.t.offsetX), oldScale)
           wy == Div(Sub(Mul(e.lastCenter.y, dpr), e.t.offsetY), oldScale)
           t1 == [scale |-> sc,
                  offsetX |-> Sub(Mul(newCenter.x, dpr), Mul(wx, sc)),
                  offsetY |-> Sub(Mul(newCenter.y, dpr), Mul(wy, sc))]
       IN  [e EXCEPT !.t = t1, !.lastDistance = newDistance,
                     !.lastCenter = newCenter, !.ctx = applyTransform(@, t1)]
  ELSE e

onTouchEnd(e) == [e EXCEPT !.lastDistance = Num(0)]

onKeyDown(e, code) ==
  IF code = "Space" /\ ~e.isPanning THEN [e EXCEPT !.isPanning = TRUE] ELSE e

onKeyUp(e, code) ==
  IF code = "Space" THEN [e EXCEPT !.isPanning = FALSE] ELSE e

onMouseDown(e, ev) ==
  IF e.isPanning
  THEN [e EXCEPT !.lastPan = [x |-> ev.x, y |-> ev.y], !.panDrag = TRUE]
  ELSE e

onMouseMovePan(e, ev) ==
  LET dx == Sub(ev.x, e.lastPan.x)
      dy == Sub(ev.y, e.lastPan.y)
      t1 == [e.t EXCEPT !.offsetX = Add(@, Mul(dx, dpr)),
                        !.offsetY = Add(@, Mul(dy, dpr))]
  IN  [e EXCEPT !.lastPan = [x |-> ev.x, y |-> ev.y], !.t = t1,
                !.ctx = applyTransform(@, t1)]

onMouseUpPan(e) == [e EXCEPT !.panDrag = FALSE]

(* ------------------------------ actions ------------------------------- *)
Bounded(e) ==
  /\ Len(e.undoStack) <= MaxStack
  /\ Len(e.redoStack) <= MaxStack
  /\ Len(e.loads) <= MaxLoads

\* a pointerdown that onPointerDown does not filter out
Accepted(name, ev) ==
  /\ name = "pointerdown"
  /\ ev.pointerType = "pen" \/ (ev.pointerType = "mouse" /\ ev.button = 0)

\* history variable:
\*   law      "undone" right after an effective undo(), "redone" when the very
\*            next event is redo(); pre is the raster the undo() found
\*   cleared  "undone" after an effective undo(), "cleared" once a gesture
\*            or clearBoard has followed it
\*   gesture  the contact that began a gesture and is still down: its kind,
\*            the undo stack's length when it began, and whether only
\*            pointer events have been delivered since
\*   switched the tool was switched during a stroke or shape session and no
\*            contact-begin has been accepted since
HistAfter(name, ev) ==
  [law |->
     IF name = "undo" /\ undoStack # <<>> THEN [phase |-> "undone", pre |-> buf]
     ELSE IF name = "redo" /\ hist.law.phase = "undone"
          THEN [phase |-> "redone", pre |-> hist.law.pre]
     ELSE [phase |-> "none", pre |-> Null],
   cleared |->
     IF name = "undo" /\ undoStack # <<>> THEN "undone"
     ELSE IF hist.cleared = "undone" /\ (Accepted(name, ev) \/ name = "clearBoard")
          THEN "cleared"
     ELSE hist.cleared,
   gesture |->
     IF hist.gesture = Null
     THEN IF Accepted(name, ev)
          THEN [owner |-> ev.pointerType, base |-> Len(undoStack), pointerOnly |-> TRUE]
          ELSE Null
     ELSE IF name \in {"pointerup", "pointerleave"} /\ ev.pointerType = hist.gesture.owner
          THEN Null
     ELSE IF name \in {"pointerdown", "pointermove", "pointerup", "pointerleave"}
          THEN hist.gesture
     ELSE [hist.gesture EXCEPT !.pointerOnly = FALSE],
   switched |->
     IF name = "modechange" /\ (isDrawing \/ shapeStart # Null) THEN TRUE
     ELSE IF Accepted(name, ev) THEN FALSE
     ELSE hist.switched]

\* one host event: it is counted, its handlers run to completion
Deliver(name, ev, e) ==
  /\ ops < budget
  /\ Bounded(e)
  /\ ops' = ops + 1
  /\ budget' = budget
  /\ last' = [op |-> name, ev |-> ev]
  /\ hist' = HistAfter(name, ev)
  /\ Becomes(e)

PointerEv(ptype, button, x, y, pressure) ==
  [pointerType |-> ptype, button |-> button, x |-> Num(x), y |-> Num(y),
   pressure |-> pressure]

\* pen or mouse goes down on the canvas: pointerdown, then mousedown
PointerDown(ptype, button, x, y, pressure) ==
  LET ev == PointerEv(ptype, button, x, y, pressure)
  IN  /\ Deliver("pointerdown", ev, onMouseDown(onPointerDown(Engine, ev), ev))
      /\ UNCHANGED <<hostVars, touches>>

\* pen or mouse moves over the canvas: pointermove, then the window's
\* mousemove listener if a pan drag registered it
PointerMove(ptype, x, y, pressure) ==
  LET ev == PointerEv(ptype, 0, x, y, pressure)
      e1 == onPointerMove(Engine, ev)
  IN  /\ Deliver("pointermove", ev,
                 IF e1.panDrag THEN onMouseMovePan(e1, ev) ELSE e1)
      /\ UNCHANGED <<hostVars, touches>>

\* pen or mouse is released: pointerup, then the window's mouseup listener
PointerUp(ptype) ==
  LET e1 == onPointerUp(Engine)
  IN  /\ Deliver("pointerup", [pointerType |-> ptype],
                 IF e1.panDrag THEN onMouseUpPan(e1) ELSE e1)
      /\ UNCHANGED <<hostVars, touches>>

\* pen or mouse leaves the canvas with the contact still down
PointerLeave(ptype) ==
  /\ Deliver("pointerleave", [pointerType |-> ptype], onPointerUp(Engine))
  /\ UNCHANGED <<hostVars, touches>>

TouchPt(x, y) == [x |-> Num(x), y |-> Num(y)]
TouchEv(p) == [pointerType |-> "touch", button |-> 0, x |-> p.x, y |-> p.y,
               pressure |-> Num(0)]

\* a finger goes down: pointerdown of kind touch, then touchstart
TouchStart(p) ==
  /\ Len(touches) < MaxTouches
  /\ \A i \in 1..Len(touches) : touches[i] # p
  /\ touches' = Append(touches, p)
  /\ Deliver("touchstart", [n |-> Len(touches) + 1],
             onTouchStart(onPointerDown(Engine, TouchEv(p)), touches'))
  /\ UNCHANGED hostVars

\* finger i moves: pointermove of kind touch, then touchmove
TouchMove(i, p) ==
  /\ i \in 1..Len(touches)
  /\ \A j \in 1..Len(touches) : touches[j] # p
  /\ touches' = [touches EXCEPT ![i] = p]
  /\ Deliver("touchmove", [n |-> Len(touches)],
             onTouchMove(onPointerMove(Engine, TouchEv(p)), touches'))
  /\ UNCHANGED hostVars

\* finger i is lifted: pointerup of kind touch, then touchend
TouchEnd(i) ==
  /\ i \in 1..Len(touches)
  /\ touches' = SubSeq(touches, 1, i - 1) \o SubSeq(touches, i + 1, Len(touches))
  /\ Deliver("touchend", [n |-> Len(touches) - 1], onTouchEnd(onPointerUp(Engine)))
  /\ UNCHANGED hostVars

Wheel(ctrlKey, x, y, deltaY) ==
  LET ev == [ctrlKey |-> ctrlKey, offsetX |-> Num(x), offsetY |-> Num(y),
             deltaY |-> Num(deltaY)]
  IN  /\ Deliver("wheel", ev, onWheel(Engine, ev))
      /\ UNCHANGED <<hostVars, touches>>

KeyDown(code) ==
  /\ Deliver("keydown", [code |-> code], onKeyDown(Engine, code))
  /\ UNCHANGED <<hostVars, touches>>

KeyUp(code) ==
  /\ Deliver("keyup", [code |-> code], onKeyUp(Engine, code))
  /\ UNCHANGED <<hostVars, touches>>

Undo ==
  /\ Deliver("undo", [empty |-> undoStack = <<>>], undo(Engine))
  /\ UNCHANGED <<hostVars, touches>>

Redo ==
  /\ Deliver("redo", [empty |-> redoStack = <<>>], redo(Engine))
  /\ UNCHANGED <<hostVars, touches>>

ClearBoard ==
  /\ Deliver("clearBoard", Null, clearBoard(Engine))
  /\ UNCHANGED <<hostVars, touches>>

\* the onload of a pending image runs; loads finish in no particular order
ImageLoaded(i) ==
  /\ i \in 1..Len(loads)
  /\ Becomes(imgOnload(Engine, i))
  /\ last' = [op |-> "onload", ev |-> [i |-> i]]
  /\ UNCHANGED <<hostVars, touches, ops, budget, hist>>

\* handleModeChange(newMode): the drawing effect re-registers its listeners
\* with the new mode; no ref is touched
handleModeChange(newMode) ==
  /\ newMode # mode
  /\ mode' = newMode
  /\ Deliver("modechange", [mode |-> newMode], Engine)
  /\ UNCHANGED <<dpr, win, dark, color, thickness, touches, pageVars>>

SetColor(c) ==
  /\ c # color
  /\ color' = c
  /\ Deliver("setColor", [color |-> c], Engine)
  /\ UNCHANGED <<dpr, win, dark, mode, thickness, touches, pageVars>>

\* toggleTheme: the sizing effect depends on dark and runs setSize again
ToggleTheme ==
  /\ dark' = ~dark
  /\ Deliver("toggleTheme", Null,
             WithCanvas(Engine, setSize(t, win.w, win.h, ~dark)))
  /\ UNCHANGED <<dpr, win, mode, color, thickness, touches, pageVars>>

\* the window is resized: onResize runs setSize
Resize(w, h) ==
  /\ win # [w |-> w, h |-> h]
  /\ win' = [w |-> w, h |-> h]
  /\ Deliver("resize", Null, WithCanvas(Engine, setSize(t, w, h, dark)))
  /\ UNCHANGED <<dpr, dark, mode, color, thickness, touches, pageVars>>

(* ------------------------------- Init --------------------------------- *)
(* ------------------------ history of the page ------------------------- *)
\* useState initial values of history and loading; nothing in flight.
\*   uploads  files picked whose img.onload has not run, each with the
\*            history its onImageFile closure holds
\*   calls    calculations awaiting the backend, each with the history its
\*            closure holds
\*   next     ids given out so far (Date.now() in the item ids)
\*   begun    the calculations that have set loading to true
\*   done     the calculations that have returned, with their outcome
NoCalls == [history |-> <<>>, loading |-> FALSE, uploads |-> {}, calls |-> {},
            next |-> 0, begun |-> {}, done |-> {}]

ImageItem(k) == [type |-> "image", id |-> k, idx |-> 0]
SolutionItems(k, n) == [j \in 1..n |-> [type |-> "solution", id |-> k, idx |-> j]]
LocalItem(k) == [type |-> "solution", id |-> k, idx |-> 0]

\* runCalculationWithImage(imageData), up to its await; c.history is the
\* history of the render that created the callback
runCalculationWithImage(a, c) ==
  [a EXCEPT !.loading = TRUE,
            !.begun = @ \cup {c.id},
            !.calls = @ \cup {[id |-> c.id, kind |-> "image", history |-> c.history]}]

\* onImageFile(e): the file is handed to the FileReader
onImageFile(a) ==
  [a EXCEPT !.next = @ + 1,
            !.uploads = @ \cup {[id |-> a.next + 1, history |-> a.history]}]

\* img.onload of onImageFile: the image item is put before the history the
\* closure holds, then the calculation is started
onImageFileLoad(a, u) ==
  runCalculationWithImage(
    [a EXCEPT !.history = <<ImageItem(u.id)>> \o u.history,
              !.uploads = @ \ {u}],
    u)

\* runCalculationWithImage after its await; out is what the backend did
resumeWithImage(a, c, out) ==
  [a EXCEPT !.history = IF out.kind = "ok"
                        THEN SolutionItems(c.id, out.n) \o c.history ELSE @,
            !.loading = FALSE,
            !.calls = @ \ {c},
            !.done = @ \cup {[id |-> c.id, kind |-> c.kind, out |-> out.kind,
                              n |-> out.n]}]

\* runCalculation(), up to its await; kind is "text" (a query was typed),
\* "canvas" (no query: the canvas is sent) or "noctx" (no query and
\* getContext returns null: return inside try, finally clears loading)
runCalculation(a, kind) ==
  IF kind = "noctx"
  THEN [a EXCEPT !.next = @ + 1,
                 !.loading = FALSE,
                 !.begun = @ \cup {a.next + 1},
                 !.done = @ \cup {[id |-> a.next + 1, kind |-> kind,
                                   out |-> "noctx", n |-> 0]}]
  ELSE [a EXCEPT !.next = @ + 1,
                 !.loading = TRUE,
                 !.begun = @ \cup {a.next + 1},
                 !.calls = @ \cup {[id |-> a.next + 1, kind |-> kind,
                                    history |-> a.history]}]

\* runCalculation whose try has no finally: only the success path clears
\* loading
resume_NoFinally(a, c, out, local) ==
  [a EXCEPT !.history = IF out.kind = "ok" /\ out.n > 0
                        THEN SolutionItems(c.id, out.n) \o c.history ELSE @,
            !.loading = IF out.kind = "ok" /\ out.n > 0 THEN FALSE ELSE @,
            !.calls = @ \ {c},
            !.done = @ \cup {[id |-> c.id, kind |-> c.kind, out |-> out.kind,
                              n |-> out.n]}]

\* runCalculation after its await.  An invalid or empty answer returns
\* inside try; an error falls through to the local fallback, which adds
\* one item when a query was typed and trySolveLocally solves it (local)
resume(a, c, out, local) ==
  [a EXCEPT !.history =
              IF out.kind = "ok" /\ out.n > 0
              THEN SolutionItems(c.id, out.n) \o c.history
              ELSE IF out.kind = "error" /\ c.kind = "text" /\ local
                   THEN <<LocalItem(c.id)>> \o c.history
              ELSE @,
            !.loading = FALSE,
            !.calls = @ \ {c},
            !.done = @ \cup {[id |-> c.id, kind |-> c.kind,
                              out |-> IF out.kind = "error" /\ c.kind = "text" /\ local
                                      THEN "local" ELSE out.kind,
                              n |-> out.n]}]

(* --------------------------- authentication --------------------------- *)
\* a JavaScript string; null is Null
Str(x) == [str |-> x]

\* JavaScript truthiness of a string | null
Truthy(v) == v # Null /\ v # Str("")

\* AuthProvider before its effect has run; stored is localStorage's token
\* and logins the calls of login() that await their post
Unmounted(stored) ==
  [user |-> Null, token |-> Null, loading |-> TRUE, stored |-> stored, logins |-> {}]

isAuthenticated(a) == Truthy(a.token)

\* the effect of AuthProvider
authEffect(a) ==
  IF Truthy(a.stored)
  THEN [a EXCEPT !.token = a.stored,
                 !.user = [username |-> "User", email |-> "user@example.com"],
                 !.loading = FALSE]
  ELSE [a EXCEPT !.loading = FALSE]

\* login(email, password), up to its await
login(a, id, email) == [a EXCEPT !.logins = @ \cup {[id |-> id, email |-> email]}]

\* login after its await: the post resolved with access_token and username
loginResolved(a, l, access_token, username) ==
  [a EXCEPT !.logins = @ \ {l},
            !.stored = access_token,
            !.token = access_token,
            !.user = [username |-> username, email |-> l.email]]

\* login after its await: the post rejected and the exception leaves login
loginRejected(a, l) == [a EXCEPT !.logins = @ \ {l}]

\* logout that forgets localStorage
logout_KeepStored(a) == [a EXCEPT !.token = Null, !.user = Null]

logout(a) == [a EXCEPT !.stored = Null, !.token = Null, !.user = Null]

T0 == [scale |-> Num(1), offsetX |-> Num(0), offsetY |-> Num(0)]

\* the state after the component has mounted and its effects have run
InitAll(r, w, h, n, stored) ==
  /\ app = NoCalls
  /\ auth = Unmounted(stored)
  /\ budget = n
  /\ dpr = r
  /\ win = [w |-> w, h |-> h]
  /\ dark = TRUE
  /\ mode = "pen"
  /\ color = "#ffffff"
  /\ thickness = 3
  /\ t = T0
  /\ buf = setSize(T0, w, h, TRUE).buf
  /\ css = setSize(T0, w, h, TRUE).css
  /\ ctx = setSize(T0, w, h, TRUE).ctx
  /\ isDrawing = FALSE
  /\ lastPos = Null
  /\ shapeStart = Null
  /\ snapshot = Null
  /\ undoStack = <<>>
  /\ redoStack = <<>>
  /\ loads = <<>>
  /\ isPanning = FALSE
  /\ panDrag = FALSE
  /\ lastPan = [x |-> Num(0), y |-> Num(0)]
  /\ lastDistance = Num(0)
  /\ lastCenter = [x |-> Num(0), y |-> Num(0)]
  /\ touches = <<>>
  /\ ops = 0
  /\ last = [op |-> "init", ev |-> Null]
  /\ hist = [law |-> [phase |-> "none", pre |-> Null], cleared |-> "no",
             gesture |-> Null, switched |-> FALSE]

InitWith(r, w, h, n) == InitAll(r, w, h, n, Null)

(* --------------------------- specification ---------------------------- *)
Half == Norm(1, 2)

Next ==
  \/ \E ptype \in {"pen", "mouse"}, x \in {20, 80}, pr \in {Half} :
        PointerDown(ptype, 0, x, 20, pr)
  \/ \E ptype \in {"pen", "mouse"}, x \in {20, 80}, pr \in {Half} :
        PointerMove(ptype, x, 20, pr)
  \/ \E ptype \in {"pen", "mouse"} : PointerUp(ptype)
  \/ PointerLeave("mouse")
  \/ Undo
  \/ Redo
  \/ ClearBoard
  \/ \E i \in 1..MaxLoads : ImageLoaded(i)
  \/ \E m \in {"pen", "eraser", "rectangle"} : handleModeChange(m)
  \/ ToggleTheme
  \/ \E w \in {100, 160} : Resize(w, 100)

Init == \E r \in {Num(1), Num(2)} : InitWith(r, 100, 100, MaxOps)

Spec == Init /\ [][Next]_vars

\* the view gestures: wheel zoom, pinch, Space + drag
NextView ==
  \/ \E ctrlKey \in BOOLEAN, deltaY \in {-100, 100} : Wheel(ctrlKey, 20, 60, deltaY)
  \/ \E x \in {100, 200, 300} : TouchStart(TouchPt(x, 200))
  \/ \E i \in 1..MaxTouches, x \in {100, 200, 300} : TouchMove(i, TouchPt(x, 200))
  \/ \E i \in 1..MaxTouches : TouchEnd(i)
  \/ KeyDown("Space")
  \/ KeyUp("Space")
  \/ PointerDown("mouse", 0, 20, 20, Num(0))
  \/ \E x \in {20, 50} : PointerMove("mouse", x, 20, Num(0))
  \/ PointerUp("mouse")

InitView == \E r \in {Num(1), Num(2)} : InitWith(r, 400, 400, MaxViewOps)

SpecView == InitView /\ [][NextView]_vars

\* growth of the raster: contacts near and far from the edges, at several
\* device-pixel ratios and window sizes
NextGrow ==
  \/ \E x \in {20, 80, 690}, y \in {20, 80} : PointerDown("pen", 0, x, y, Num(1))
  \/ \E x \in {80, 690}, y \in {20, 80} : PointerMove("pen", x, y, Num(1))
  \/ PointerUp("pen")
  \/ \E m \in {"pen", "eraser", "rectangle"} : handleModeChange(m)
  \/ Wheel(TRUE, 20, 20, -100)
  \/ ToggleTheme
  \/ \E w \in {101, 160} : Resize(w, 100)

InitGrow ==
  \E r \in {Num(1), Num(2), Norm(3, 2), Norm(1, 2)} :
     InitWith(r, 101, 100, MaxGrowOps)

SpecGrow == InitGrow /\ [][NextGrow]_vars

\* history operations under a zoomed view
NextHist ==
  \/ \E deltaY \in {-100, 100} : Wheel(TRUE, 20, 20, deltaY)
  \/ PointerDown("pen", 0, 20, 20, Half)
  \/ PointerMove("pen", 40, 20, Half)
  \/ PointerUp("pen")
  \/ \E m \in {"pen", "rectangle"} : handleModeChange(m)
  \/ Undo
  \/ Redo
  \/ ClearBoard
  \/ \E i \in 1..MaxLoads : ImageLoaded(i)

InitHist == \E r \in {Num(1), Num(2)} : InitWith(r, 100, 100, MaxHistOps)

SpecHist == InitHist /\ [][NextHist]_vars

(* -------------------- serialization that may fail --------------------- *)
\* pushUndo() when canvas.toDataURL() may throw: the try block is left
\* before either stack is touched and the catch logs the error
pushUndoTry(e, throws) == IF throws THEN e ELSE pushUndo(e)

\* undo() / redo() when canvas.toDataURL() may throw: the call is outside
\* any try block, so the exception leaves the function before a stack is
\* popped; with an empty stack toDataURL() is not reached
undoTry(e, throws) == IF throws THEN e ELSE undo(e)
undoThrown(e, throws) == Len(e.undoStack) # 0 /\ throws
redoTry(e, throws) == IF throws THEN e ELSE redo(e)
redoThrown(e, throws) == Len(e.redoStack) # 0 /\ throws

\* clearBoard() with that pushUndo()
clearBoardTry(e, throws) ==
  [clearBoard(e) EXCEPT !.undoStack = pushUndoTry(e, throws).undoStack,
                        !.redoStack = pushUndoTry(e, throws).redoStack]

\* onPointerDown() with that pushUndo(); a filtered event does not reach it
onPointerDownTry(e, ev, throws) ==
  IF ev.pointerType # "pen" /\ (ev.pointerType # "mouse" \/ ev.button # 0) THEN e
  ELSE [onPointerDown(e, ev) EXCEPT
          !.undoStack = pushUndoTry(e, throws).undoStack,
          !.redoStack = pushUndoTry(e, throws).redoStack]

\* the host events of SpecFail; ev.throws: toDataURL() throws during this
\* event, ev.thrown: an exception left the handler
PointerDownTry(ptype, button, x, y, pressure, throws) ==
  /\ Deliver("pointerdown",
             [pointerType |-> ptype, button |-> button, x |-> Num(x),
              y |-> Num(y), pressure |-> pressure, throws |-> throws,
              thrown |-> FALSE],
             onMouseDown(onPointerDownTry(Engine,
                                          PointerEv(ptype, button, x, y, pressure),
                                          throws),
                         PointerEv(ptype, button, x, y, pressure)))
  /\ UNCHANGED <<hostVars, touches>>

UndoTry(throws) ==
  /\ Deliver("undo", [empty |-> undoStack = <<>>, throws |-> throws,
                      thrown |-> undoThrown(Engine, throws)],
             undoTry(Engine, throws))
  /\ UNCHANGED <<hostVars, touches>>

RedoTry(throws) ==
  /\ Deliver("redo", [empty |-> redoStack = <<>>, throws |-> throws,
                      thrown |-> redoThrown(Engine, throws)],
             redoTry(Engine, throws))
  /\ UNCHANGED <<hostVars, touches>>

ClearBoardTry(throws) ==
  /\ Deliver("clearBoard", [throws |-> throws, thrown |-> FALSE],
             clearBoardTry(Engine, throws))
  /\ UNCHANGED <<hostVars, touches>>

NextFail ==
  \/ \E throws \in BOOLEAN : PointerDownTry("pen", 0, 20, 20, Half, throws)
  \/ PointerMove("pen", 40, 20, Half)
  \/ PointerUp("pen")
  \/ \E throws \in BOOLEAN : UndoTry(throws)
  \/ \E throws \in BOOLEAN : RedoTry(throws)
  \/ \E throws \in BOOLEAN : ClearBoardTry(throws)
  \/ \E i \in 1..MaxLoads : ImageLoaded(i)

InitFail == \E r \in {Num(1), Num(2)} : InitWith(r, 100, 100, MaxFailOps)

SpecFail == InitFail /\ [][NextFail]_vars

(* ------------------------- events of the page ------------------------ *)
boardVars == <<dpr, win, dark, mode, color, thickness, canvasVars, t,
               sessionVars, historyVars, panVars, touchVars, hist>>

\* an input event of the page: it is counted
PageEvent(name, ev) ==
  /\ ops < budget
  /\ ops' = ops + 1
  /\ budget' = budget
  /\ last' = [op |-> name, ev |-> ev]

\* the continuation of something the page awaits: it is not counted
Completion(name, ev) ==
  /\ last' = [op |-> name, ev |-> ev]
  /\ UNCHANGED <<ops, budget>>

\* a file is chosen in the file input
ImageFile ==
  /\ PageEvent("imagefile", Null)
  /\ app' = onImageFile(app)
  /\ UNCHANGED <<boardVars, auth>>

\* the FileReader and the Image of an upload have loaded
ImageFileLoaded ==
  \E u \in app.uploads :
     /\ Completion("imageload", [id |-> u.id])
     /\ app' = onImageFileLoad(app, u)
     /\ UNCHANGED <<boardVars, auth>>

\* the Solve button, which is disabled while loading is true
RunCalculation(kind) ==
  /\ ~app.loading
  /\ PageEvent("runCalculation", [kind |-> kind])
  /\ app' = runCalculation(app, kind)
  /\ UNCHANGED <<boardVars, auth>>

\* what axios.post can settle with: an answer with n solutions, an answer
\* whose data is not an array, or a rejection (which includes the timeout)
Outcomes ==
  {[kind |-> "ok", n |-> n] : n \in 0..MaxSolutions}
    \cup {[kind |-> "invalid", n |-> 0], [kind |-> "error", n |-> 0]}

\* the post of calculation k settles and the calculation runs to its end
Respond(k) ==
  \E c \in app.calls : \E out \in Outcomes : \E local \in BOOLEAN :
     /\ c.id = k
     /\ Completion("response", [id |-> k, out |-> out.kind])
     /\ app' = IF c.kind = "image" THEN resumeWithImage(app, c, out)
                                   ELSE resume(app, c, out, local)
     /\ UNCHANGED <<boardVars, auth>>

NextCalc ==
  \/ ImageFile
  \/ ImageFileLoaded
  \/ \E kind \in {"text", "canvas", "noctx"} : RunCalculation(kind)
  \/ \E k \in 1..MaxCalcOps : Respond(k)

InitCalc == InitWith(Num(1), 100, 100, MaxCalcOps)

SpecCalc == InitCalc /\ [][NextCalc]_vars

\* axios.post is given a timeout, so every post settles
SpecCalcLive == SpecCalc /\ \A k \in 1..MaxCalcOps : WF_vars(Respond(k))

(* ---------------------- events of authentication --------------------- *)
\* the tokens the backend issues
Tokens == {Str("tokA"), Str("tokB")}

\* AuthProvider's effect runs after the first render
AuthMounted ==
  /\ auth.loading
  /\ Completion("authEffect", Null)
  /\ auth' = authEffect(auth)
  /\ UNCHANGED <<boardVars, app>>

\* the login form is submitted
Login(email) ==
  /\ ~auth.loading
  /\ PageEvent("login", [email |-> email])
  /\ auth' = login(auth, ops + 1, email)
  /\ UNCHANGED <<boardVars, app>>

\* the post of a login resolves
LoginResolved ==
  \E l \in auth.logins : \E access_token \in Tokens :
     /\ Completion("loginResolved", [id |-> l.id])
     /\ auth' = loginResolved(auth, l, access_token, "name")
     /\ UNCHANGED <<boardVars, app>>

\* the post of a login rejects
LoginRejected ==
  \E l \in auth.logins :
     /\ Completion("loginRejected", [id |-> l.id])
     /\ auth' = loginRejected(auth, l)
     /\ UNCHANGED <<boardVars, app>>

Logout ==
  /\ ~auth.loading
  /\ PageEvent("logout", Null)
  /\ auth' = logout(auth)
  /\ UNCHANGED <<boardVars, app>>

NextAuth ==
  \/ AuthMounted
  \/ \E email \in {"a@x", "b@x"} : Login(email)
  \/ LoginResolved
  \/ LoginRejected
  \/ Logout

InitAuth ==
  \E stored \in {Null} \cup Tokens : InitAll(Num(1), 100, 100, MaxAuthOps, stored)

SpecAuth == InitAuth /\ [][NextAuth]_vars

(* ------------------------------ claims -------------------------------- *)
\* C1: undo() directly followed by redo() leaves the buffer, once the image
\* loads they started have run, with exactly the pixels it had before undo()
C1_UndoRedoInverse ==
  (hist.law.phase = "redone" /\ loads = <<>>) => SameImage(buf, hist.law.pre)

\* C2: after an undo(), a new gesture or clearBoard leaves the redo stack
\* empty, and a redo() issued after that changes neither stack nor the buffer
C2_RedoClearing ==
  [][/\ (hist'.cleared = "cleared") => (redoStack' = <<>>)
     /\ (hist.cleared = "cleared" /\ last'.op = "redo" /\ ops' # ops) =>
          (undoStack' = undoStack /\ redoStack' = redoStack /\ buf' = buf
             /\ loads' = loads)]_vars

C2_Witness ==
  /\ hist.cleared = "cleared"
  /\ last.op = "redo"
  /\ undoStack # <<>>

\* C3: in every reachable state the view transform's scale is a finite
\* number strictly greater than 0
C3_ScalePositive == IsFinite(t.scale) /\ t.scale.n > 0

\* the arguments ensureCapacity is tried with in every reachable state
CapArgs == {Num(-5), Num(80), Num(690), NaN}

\* C4: whatever point ensureCapacity is called with, the buffer's width and
\* height after the call are at least what they were before it
C4_GrowthMonotonic ==
  \A x \in CapArgs, y \in CapArgs :
     LET cv == ensureCapacity(Canvas(Engine), t, x, y)
     IN  cv.buf.w >= buf.w /\ cv.buf.h >= buf.h

C4_Witness ==
  /\ last.op \in {"pointerdown", "pointermove"}
  /\ dpr # Num(1)
  /\ css.h > win.h
  /\ css.w = win.w

\* C5: when ensureCapacity grows the buffer, every pixel that existed before
\* has the same value at the same device-pixel coordinates afterwards
C5_GrowthKeepsPixels ==
  \A x \in CapArgs, y \in CapArgs :
     LET cv == ensureCapacity(Canvas(Engine), t, x, y)
     IN  (cv.buf.w > buf.w \/ cv.buf.h > buf.h) =>
            SamePixelsWithin(buf, cv.buf, buf.w, buf.h)

\* C6: over any sequence of operations the buffer's width and height never
\* decrease
C6_NeverShrinks == [][buf'.w >= buf.w /\ buf'.h >= buf.h]_vars

\* C7: a tool switch during a stroke or shape session leaves the engine in
\* Idle, and the contact-moves that follow, up to the next contact-begin, do
\* not change the buffer
C7_ToolSwitchCancels ==
  [][/\ (last'.op = "modechange" /\ ops' # ops /\ (isDrawing \/ shapeStart # Null)) =>
          /\ isDrawing' = FALSE
          /\ shapeStart' = Null
          /\ snapshot' = Null
          /\ ctx'.gco = "source-over"
     /\ (hist.switched /\ last'.op = "pointermove" /\ ops' # ops) => buf' = buf]_vars

\* C8: between a pen/mouse contact-begin and the contact-end or contact-leave
\* of that contact, with only pointer events in between, the undo stack grows
\* by exactly one
C8_OneEntryPerGesture ==
  [][(/\ hist.gesture # Null
      /\ hist.gesture.pointerOnly
      /\ last'.op \in {"pointerup", "pointerleave"}
      /\ ops' # ops
      /\ last'.ev.pointerType = hist.gesture.owner) =>
        Len(undoStack') = hist.gesture.base + 1]_vars

\* C9: the entry a contact-begin pushes on the undo stack is the buffer, in
\* content and dimensions, as it was when the event arrived
C9_SnapshotBeforeMutation ==
  [][(ops' # ops /\ Accepted(last'.op, last'.ev)) =>
        (undoStack' # <<>> /\ Top(undoStack') = buf)]_vars

\* C10: after a modifier-held wheel zoom at pointer position d, the surface
\* point that toWorld mapped d to before the zoom is mapped back to d
C10_ZoomAnchoring ==
  [][(/\ last'.op = "wheel" /\ ops' # ops /\ last'.ev.ctrlKey
      /\ IsFinite(t.scale) /\ t.scale.n > 0
      /\ IsFinite(t.offsetX) /\ IsFinite(t.offsetY)) =>
        toScreen(t', toWorld(t, last'.ev.offsetX, last'.ev.offsetY))
          = [x |-> last'.ev.offsetX, y |-> last'.ev.offsetY]]_vars

\* a view transform under which every pointer position has a surface point
ValidT(tr) ==
  /\ IsFinite(tr.scale) /\ tr.scale.n > 0
  /\ IsFinite(tr.offsetX) /\ IsFinite(tr.offsetY)

\* C11: a two-contact move from lastDistance > 0 multiplies the scale by
\* newDistance / lastDistance, and the surface point that was under the old
\* midpoint is under the new midpoint afterwards
C11_PinchZoom ==
  [][(/\ last'.op = "touchmove" /\ ops' # ops /\ Len(touches') = 2
      /\ Gt(lastDistance, Num(0))
      /\ IsFinite(t.scale) /\ t.scale.n > 0) =>
        /\ t'.scale = Mul(t.scale, Div(getTouchDistance(touches'), lastDistance))
        /\ ValidT(t')
        /\ toWorld(t', getTouchCenter(touches').x, getTouchCenter(touches').y)
             = toWorld(t, lastCenter.x, lastCenter.y)
        /\ lastCenter = getTouchCenter(touches)]_vars

C11_Witness ==
  /\ last.op = "touchmove" /\ Len(touches) = 2
  /\ dpr = Num(2)
  /\ t.scale = Num(2)
  /\ lastCenter = getTouchCenter(touches)

\* the points the round trip is tried with in every reachable state
RoundTripPts ==
  {[x |-> Num(20), y |-> Num(60)], [x |-> Norm(-7, 3), y |-> Norm(5, 2)]}

\* C12: under a view transform with a finite scale > 0, toWorld after
\* toScreen returns the surface point it started from, and toScreen after
\* toWorld returns the pointer position it started from (arithmetic exact)
C12_RoundTrip ==
  ValidT(t) =>
    \A p \in RoundTripPts :
       /\ toWorld(t, toScreen(t, p).x, toScreen(t, p).y) = p
       /\ toScreen(t, toWorld(t, p.x, p.y)) = p

C12_Witness ==
  /\ ValidT(t)
  /\ dpr = Num(2)
  /\ t.scale # Num(1)
  /\ t.offsetX # Num(0)
  /\ toScreen(t, [x |-> Num(20), y |-> Num(60)]) # [x |-> Num(20), y |-> Num(60)]

\* C13: a wheel zoom, a two-contact pinch and a mouse drag made while pan
\* mode is held change neither the buffer, nor the undo / redo stacks, nor
\* the tool session state
C13_ViewGesturesFrame ==
  [][(/\ ops' # ops
      /\ \/ last'.op \in {"wheel", "touchstart", "touchmove", "touchend"}
         \/ isPanning /\ last'.op = "pointerdown"
         \/ panDrag /\ last'.op = "pointermove") =>
        UNCHANGED <<buf, undoStack, redoStack, isDrawing, lastPos, shapeStart,
                    snapshot>>]_vars

\* C14: undo() on an empty undo stack and redo() on an empty redo stack
\* change neither the buffer, nor the stacks, nor the view transform, and
\* start no image load
C14_EmptyStackNoOp ==
  [][(/\ ops' # ops
      /\ \/ last'.op = "undo" /\ undoStack = <<>>
         \/ last'.op = "redo" /\ redoStack = <<>>) =>
        UNCHANGED <<buf, css, undoStack, redoStack, t, loads>>]_vars

C14_Witness ==
  /\ last.op = "undo" /\ last.ev.empty
  /\ redoStack # <<>>
  /\ loads = <<>>
  /\ buf.marks # {}

\* the content the buffer is meant to have: the snapshot of the restoration
\* started last if one is pending, the raster otherwise
Meant == IF loads = <<>> THEN buf ELSE loads[Len(loads)].img

\* C15: undo() on a non-empty undo stack removes its top entry, pushes the
\* content the buffer is meant to have onto the redo stack and restores the
\* buffer from the removed entry; redo() does the same with the stacks
\* exchanged
C15_UndoRedoStep ==
  [][/\ (ops' # ops /\ last'.op = "undo" /\ undoStack # <<>>) =>
          /\ undoStack' = Front(undoStack)
          /\ redoStack' = Append(redoStack, Meant)
          /\ loads' # <<>> /\ Top(loads').img = Top(undoStack)
     /\ (ops' # ops /\ last'.op = "redo" /\ redoStack # <<>>) =>
          /\ redoStack' = Front(redoStack)
          /\ undoStack' = Append(undoStack, Meant)
          /\ loads' # <<>> /\ Top(loads').img = Top(redoStack)]_vars

\* C16: a restoration is complete before the next input event is handled
C16_RestoreSynchronous == [][(ops' # ops) => loads = <<>>]_vars

\* C17: a contact-move that arrives while no stroke or shape session is
\* active changes neither the buffer, nor the stacks, nor the view transform
C17_IdleMoveIgnored ==
  [][(/\ ops' # ops /\ last'.op = "pointermove"
      /\ ~isDrawing /\ shapeStart = Null /\ ~panDrag) =>
        UNCHANGED <<buf, undoStack, redoStack, t>>]_vars

\* C18: after a contact-end or contact-leave the engine is Idle (isDrawing
\* false; last point, shape anchor and preview snapshot cleared; composite
\* mode source-over) and the buffer is as the last move left it
C18_ContactEndIdle ==
  [][(ops' # ops /\ last'.op \in {"pointerup", "pointerleave"}) =>
        /\ isDrawing' = FALSE
        /\ lastPos' = Null
        /\ shapeStart' = Null
        /\ snapshot' = Null
        /\ ctx'.gco = "source-over"
        /\ buf' = buf]_vars

C18_Witness ==
  /\ last.op \in {"pointerup", "pointerleave"}
  /\ mode = "eraser"
  /\ \E m \in buf.marks : m.c = "T"
  /\ ~isDrawing
  /\ ctx.gco = "source-over"

\* C19: a contact of kind touch (begin, move or end) changes neither the
\* buffer, nor the undo / redo stacks, nor the stroke or shape session
C19_TouchNeverDraws ==
  [][(ops' # ops /\ last'.op \in {"touchstart", "touchmove", "touchend"}) =>
        /\ UNCHANGED <<buf, undoStack, redoStack, isDrawing, lastPos,
                        shapeStart, snapshot>>
        /\ ctx'.gco = ctx.gco]_vars

\* C20: the pixel at which a stroke records the surface point under the
\* pointer is the one it is recorded at under the initial view transform,
\* whatever the view transform in effect
C20_TransformNotBaked ==
  [][(/\ ops' # ops /\ last'.op = "pointermove"
      /\ isDrawing /\ mode \in {"pen", "eraser"} /\ ValidT(t)) =>
        /\ ctx'.path # <<>>
        /\ Top(ctx'.path) =
             Pixel(ToDevice(applyTransform(ctx', T0),
                            toWorld(t, last'.ev.x, last'.ev.y)))]_vars

\* C21: a contact-begin or contact-move whose device position is within
\* 50 * dpr device pixels of the buffer's right edge leaves the buffer
\* floor((widthCSS + 600) * dpr) wide, and the height changes only when the
\* bottom margin is violated too (then to floor((heightCSS + 600) * dpr))
C21_GrowthIncrement ==
  [][(/\ ops' # ops /\ last'.op \in {"pointerdown", "pointermove"}
      /\ last'.ev.pointerType \in {"pen", "mouse"}) =>
        LET p     == toScreen(t, toWorld(t, last'.ev.x, last'.ev.y))
            nearX == Gt(Mul(p.x, dpr), Sub(Num(buf.w), Mul(Num(50), dpr)))
            nearY == Gt(Mul(p.y, dpr), Sub(Num(buf.h), Mul(Num(50), dpr)))
        IN  /\ nearX => /\ css'.w = css.w + 600
                        /\ buf'.w = Floor(Mul(Num(css.w + 600), dpr))
            /\ nearY => /\ css'.h = css.h + 600
                        /\ buf'.h = Floor(Mul(Num(css.h + 600), dpr))
            /\ ~nearX => (buf'.w = buf.w /\ css'.w = css.w)
            /\ ~nearY => (buf'.h = buf.h /\ css'.h = css.h)]_vars

C21_Witness ==
  /\ last.op \in {"pointerdown", "pointermove"}
  /\ dpr = Norm(3, 2)
  /\ css = [w |-> win.w + 600, h |-> win.h]
  /\ buf.w = 1051 /\ buf.h = 150

\* the buffer a shape move should leave: the pre-shape snapshot on a
\* background of the buffer's present size, plus the one preview towards p
ShapeExpected(b, c, p) ==
  Paint(PutImageData(FillRect(Blank(b.w, b.h), b.w, b.h, BG(dark)), snapshot),
        ShapePixels(c, shapeStart, p), c.gco, color)

\* C22: a contact-move of a shape session whose buffer has grown leaves the
\* snapshot, extended with background, plus exactly one preview; a
\* contact-move of a stroke that grows the buffer continues the path from
\* the stroke's last point
C22_GrowthKeepsSession ==
  [][(/\ ops' # ops /\ last'.op = "pointermove"
      /\ last'.ev.pointerType \in {"pen", "mouse"}) =>
        /\ (/\ mode \notin {"pen", "eraser"}
            /\ shapeStart # Null /\ snapshot # Null
            /\ (buf'.w > snapshot.w \/ buf'.h > snapshot.h)) =>
              SameImage(buf', ShapeExpected(buf', ctx',
                                            toWorld(t, last'.ev.x, last'.ev.y)))
        /\ (/\ mode \in {"pen", "eraser"} /\ isDrawing /\ ctx.path # <<>>
            /\ (buf'.w > buf.w \/ buf'.h > buf.h)) =>
              /\ Len(ctx'.path) >= 2
              /\ ctx'.path[Len(ctx'.path) - 1] = Top(ctx.path)]_vars

\* C23: a contact-move of a stroke that grows the buffer leaves the
\* context with the stroke colour and composite mode the session had, and
\* with the line width of the move
C23_PaintStateAfterGrowth ==
  [][(/\ ops' # ops /\ last'.op = "pointermove"
      /\ last'.ev.pointerType \in {"pen", "mouse"}
      /\ mode \in {"pen", "eraser"} /\ isDrawing
      /\ (buf'.w > buf.w \/ buf'.h > buf.h)) =>
        /\ ctx'.strokeStyle = ctx.strokeStyle
        /\ ctx'.gco = ctx.gco
        /\ ctx'.lineWidth = Mul(Div(Num(thickness), dpr),
                                pressureFactor(last'.ev.pressure))]_vars

C25_ContactBeginDispatch ==
  [][(ops' # ops /\ Accepted(last'.op, last'.ev)) =>
        LET p == toWorld(t, last'.ev.x, last'.ev.y)
        IN  /\ (mode \in {"pen", "eraser"}) =>
                 /\ isDrawing' = TRUE
                 /\ lastPos' = p
                 /\ ctx'.gco = IF mode = "eraser" THEN "destination-out"
                                                  ELSE "source-over"
                 /\ ctx'.path = <<Pixel(ToDevice(ctx', p))>>
                 /\ UNCHANGED <<shapeStart, snapshot>>
            /\ (mode \in {"line", "rectangle", "circle"}) =>
                 /\ shapeStart' = p
                 /\ snapshot' = buf'
                 /\ UNCHANGED <<isDrawing, lastPos>>
                 /\ ctx'.path = IF buf'.w = buf.w /\ buf'.h = buf.h
                                THEN ctx.path ELSE <<>>]_vars

C25_Witness ==
  /\ last.op = "pointerdown"
  /\ mode = "rectangle"
  /\ shapeStart = [x |-> Num(160), y |-> Num(40)]
  /\ snapshot = buf
  /\ buf.w > win.w * dpr.n
  /\ ~isDrawing

\* C26: a two-contact move computes its scale change and anchoring from
\* the distance and midpoint of the two contacts as they were before it
C26_CleanTwoContactPhase ==
  [][(ops' # ops /\ last'.op = "touchmove" /\ Len(touches') = 2) =>
        /\ lastDistance = getTouchDistance(touches)
        /\ lastCenter = getTouchCenter(touches)]_vars

\* C27: a mouse move changes the view transform only while pan mode is
\* held; a move of a pan drag made while it is held adds the pointer delta
\* times dpr to the offsets and leaves the scale alone
C27_PanOnlyWhileHeld ==
  [][(/\ ops' # ops /\ last'.op = "pointermove"
      /\ last'.ev.pointerType = "mouse") =>
        /\ ~isPanning => t' = t
        /\ (isPanning /\ panDrag) =>
              t' = [scale   |-> t.scale,
                    offsetX |-> Add(t.offsetX,
                                    Mul(Sub(last'.ev.x, lastPan.x), dpr)),
                    offsetY |-> Add(t.offsetY,
                                    Mul(Sub(last'.ev.y, lastPan.y), dpr))]]_vars

\* C28: a wheel event without the modifier leaves the view transform as it
\* is; with it the scale is multiplied by 11/10 when deltaY <= 0 (deltaY = 0
\* included) and by 9/10 when deltaY > 0
C28_WheelFactor ==
  [][(ops' # ops /\ last'.op = "wheel") =>
        /\ ~last'.ev.ctrlKey => t' = t
        /\ last'.ev.ctrlKey =>
              t'.scale = Mul(t.scale, IF last'.ev.deltaY.n > 0 THEN Norm(9, 10)
                                                              ELSE Norm(11, 10))
        /\ onWheel(Engine, [last'.ev EXCEPT !.ctrlKey = TRUE,
                                            !.deltaY = Num(0)]).t.scale
             = Mul(t.scale, Norm(11, 10))
        /\ onWheel(Engine, [last'.ev EXCEPT !.ctrlKey = FALSE]).t = t]_vars

C28_Witness ==
  /\ last.op = "wheel" /\ last.ev.ctrlKey
  /\ last.ev.deltaY = Num(100)
  /\ t.scale = Norm(99, 100)

\* the view transform as a context transform
AsCtxT(tr) == [s |-> tr.scale, ox |-> tr.offsetX, oy |-> tr.offsetY]

\* C29: undo(), redo(), clearBoard() and the completion of a restoration
\* leave the view transform as it is; after a clear or a restoration the
\* context's transform is the view transform (a finite one), and a shape
\* session's snapshot and restore leave the context's transform as it was
C29_HistoryKeepsTransform ==
  [][/\ (last'.op \in {"undo", "redo", "clearBoard"} /\ ops' # ops) => t' = t
     /\ (last'.op = "onload" /\ loads' # loads) => t' = t
     /\ (/\ \/ (last'.op = "clearBoard" /\ ops' # ops)
             \/ (last'.op = "onload" /\ loads' # loads)
         /\ ValidT(t)) => ctx'.T = AsCtxT(t)
     /\ (/\ last'.op \in {"pointerdown", "pointermove"} /\ ops' # ops
         /\ mode \notin {"pen", "eraser"}
         /\ buf'.w = buf.w /\ buf'.h = buf.h) => ctx'.T = ctx.T]_vars

C29_Witness ==
  /\ last.op = "onload"
  /\ loads = <<>>
  /\ redoStack # <<>>
  /\ t.scale = Norm(11, 10)
  /\ ctx.T = AsCtxT(t)
  /\ dpr = Num(2)

\* the width the pen gets at a pointer event: (thickness / dpr) * pressureFactor
PenWidth(ev) == Mul(Div(Num(thickness), dpr), pressureFactor(ev.pressure))

\* C30: with the eraser, the line width set by an accepted contact-begin and
\* by every contact-move of a drawing session is 4 times the pen's width
C30_EraserWidth ==
  [][(/\ ops' # ops
      /\ last'.op \in {"pointerdown", "pointermove"}
      /\ last'.ev.pointerType \in {"pen", "mouse"}
      /\ last'.ev.button = 0
      /\ mode = "eraser"
      /\ isDrawing') =>
        ctx'.lineWidth = Mul(Num(4), PenWidth(last'.ev))]_vars

\* the pressure policy of the specification: 0 counts as 1, and the factor
\* for p in (0, 1] is 0.5 + p / 2
PolicyFactor(p) ==
  IF p = Num(0) THEN Num(1) ELSE Add(Norm(1, 2), Div(p, Num(2)))

\* C31: the pen's width at an accepted contact-begin and at every
\* contact-move of a drawing session is baseThickness * (0.5 + p / 2), with
\* pressure 0 treated as 1, hence never above baseThickness
C31_PressurePolicy ==
  [][(/\ ops' # ops
      /\ last'.op \in {"pointerdown", "pointermove"}
      /\ last'.ev.pointerType \in {"pen", "mouse"}
      /\ last'.ev.button = 0
      /\ mode = "pen"
      /\ isDrawing') =>
        /\ ctx'.lineWidth = Mul(Div(Num(thickness), dpr),
                                PolicyFactor(last'.ev.pressure))
        /\ ~Gt(ctx'.lineWidth, Div(Num(thickness), dpr))]_vars

\* C32: when canvas.toDataURL() throws during a contact-begin's or a
\* clear's pushUndo(), or during undo() or redo(), both stacks are left as
\* they were, undo() and redo() leave the buffer as it was, and no
\* exception leaves the handler
C32_SerializationFailureRecovered ==
  [][(/\ ops' # ops
      /\ last'.op \in {"pointerdown", "clearBoard", "undo", "redo"}
      /\ "throws" \in DOMAIN last'.ev
      /\ last'.ev.throws) =>
        /\ undoStack' = undoStack
        /\ redoStack' = redoStack
        /\ last'.op \in {"undo", "redo"} => buf' = buf /\ loads' = loads
        /\ ~last'.ev.thrown]_vars

\* C33: Drawing and Shaping exclude each other in every reachable state:
\* isDrawing is never true while a shape anchor or a preview snapshot is set
C33_DrawingXorShaping ==
  ~(isDrawing /\ (shapeStart # Null \/ snapshot # Null))

\* the number of stored snapshots
Stored(u, r) == Len(u) + Len(r)

\* C34: undo() and redo() keep length(undoStack) + length(redoStack); the
\* total changes only by a pushUndo (an accepted contact-begin or a clear),
\* which makes it length(undoStack) + 1 with an empty redo stack
C34_SnapshotsConserved ==
  [][/\ (ops' # ops /\ last'.op \in {"undo", "redo"}) =>
          Stored(undoStack', redoStack') = Stored(undoStack, redoStack)
     /\ (ops' # ops /\ last'.op = "undo" /\ undoStack # <<>>) =>
          Len(undoStack') = Len(undoStack) - 1
     /\ (ops' # ops /\ last'.op = "redo" /\ redoStack # <<>>) =>
          Len(redoStack') = Len(redoStack) - 1
     /\ Stored(undoStack', redoStack') # Stored(undoStack, redoStack) =>
          /\ ops' # ops
          /\ Accepted(last'.op, last'.ev) \/ last'.op = "clearBoard"
     /\ (ops' # ops /\ (Accepted(last'.op, last'.ev) \/ last'.op = "clearBoard")) =>
          /\ Stored(undoStack', redoStack') = Len(undoStack) + 1
          /\ redoStack' = <<>>]_vars

C34_Witness ==
  /\ last.op = "undo" /\ ~last.ev.empty
  /\ Len(undoStack) = 1 /\ Len(redoStack) = 1
  /\ undoStack[1] # redoStack[1]

\* picture b seen over the colour c
Over(b, c) == DrawImage(b.w, b.h, c, b, Num(1), "source-over")

\* the buffer after an undo() that directly follows the step, once the image
\* load it started has run
UndoneNext == imgOnload(undo(Engine'), Len(undo(Engine').loads)).buf

\* C35: clearBoard() pushes one undo entry holding the buffer as it was,
\* keeps the buffer's dimensions, leaves every pixel of the buffer in the
\* background colour, and an undo() that follows brings back what the
\* buffer showed before the clear
C35_ClearBoard ==
  [][(ops' # ops /\ last'.op = "clearBoard") =>
        /\ undoStack' = Append(undoStack, toDataURL(buf))
        /\ buf'.w = buf.w /\ buf'.h = buf.h
        /\ SameImage(buf', FillRect(Blank(buf.w, buf.h), buf.w, buf.h, BG(dark)))
        /\ SameImage(UndoneNext, Over(buf, BG(dark)))]_vars

\* the items of the page's history
Items == {app.history[i] : i \in 1..Len(app.history)}

\* C36: no history item is lost: once a calculation has succeeded its
\* solution items are in the history, and with them the image item when the
\* calculation was started by an upload
C36_HistoryItemsKept ==
  \A d \in app.done :
     d.out = "ok" =>
       /\ \A j \in 1..d.n : [type |-> "solution", id |-> d.id, idx |-> j] \in Items
       /\ d.kind = "image" => ImageItem(d.id) \in Items

\* the calculations that have returned
Returned == {d.id : d \in app.done}

\* C37: every calculation that has set loading to true returns, and when
\* it returns loading is false, whatever the backend did
C37_LoadingCleared ==
  /\ [][Returned' # Returned => ~app'.loading]_vars
  /\ \A k \in 1..MaxCalcOps : (k \in app.begun) ~> (k \in Returned)

C37_Witness ==
  /\ \E d \in app.done : d.out = "error" /\ d.kind = "canvas"
  /\ \E d \in app.done : d.out = "ok" /\ d.kind = "image"
  /\ app.calls = {}
  /\ ~app.loading

\* C38: isAuthenticated is true exactly when the token state is not null;
\* once the provider's initial load has finished the token state is the
\* token in localStorage; after logout both are absent and the user is
\* null; a failed login changes neither
C38_AuthConsistent ==
  /\ [](isAuthenticated(auth) <=> auth.token # Null)
  /\ [](~auth.loading => auth.token = auth.stored)
  /\ [][/\ (ops' # ops /\ last'.op = "logout") =>
            (auth'.token = Null /\ auth'.stored = Null /\ auth'.user = Null)
        /\ (last'.op = "loginRejected" /\ auth'.logins # auth.logins) =>
            (auth'.token = auth.token /\ auth'.stored = auth.stored
               /\ auth'.user = auth.user)]_vars

C38_Witness ==
  /\ last.op = "loginRejected"
  /\ auth.token = Str("tokB") /\ auth.stored = Str("tokB")
  /\ isAuthenticated(auth)
  /\ auth.logins = {}
  /\ ops = 3

====
